---- MODULE Spec2Model ----
(***************************************************************************)
(* A model of the two multi-agent scripts of the repository:               *)
(*   - autogen/autogen_interview_platform.py: main() registers five        *)
(*     agents, InterviewPlatformWorkflow.execute_workflow runs the five    *)
(*     phases (research, analysis, blueprint, technical, review), each     *)
(*     one chat-completion call, and OutputManager persists the outputs;   *)
(*   - crewai/crewai_demo.py: main() builds five agents and tasks, runs    *)
(*     them with Crew(process="sequential").kickoff and writes the result. *)
(* Texts are sequences of tokens; a model reply is any sequence over       *)
(* Alphabet of length at most MaxLen (the empty reply included).           *)
(***************************************************************************)
EXTENDS Integers, Sequences, FiniteSets, TLC

VARIABLES
    script,        \* which script runs: "autogen" or "crewai"
    pc,            \* position of autogen main / execute_workflow
    agents,        \* InterviewPlatformAgents.agents: key -> system message
    outputs,       \* InterviewPlatformWorkflow.outputs: phase -> text
    locals,        \* execute_workflow's local *_output variables
    stage,         \* index in StageOrder of the phase being executed, 0 before
    prompt,        \* the messages=[...] list built by the current phase
    attempts,      \* phase -> number of chat.completions.create invocations
    remote,        \* phase -> the remote's successive answers to that phase
    reply,         \* response.choices[0].message.content of the current call
    replies,       \* phase -> text the remote returned (log)
    sent,          \* log of requests: phase, messages, arguments of the phase
    err,           \* the exception in flight / caught: kind and phase, or NoErr
    ret,           \* how autogen main ended: "none", "True", "False", "raised"
    surfaced,      \* attributes of the exception that leaves autogen main
    file,          \* workflow_outputs_<ts>.txt: sequence of (phase, text)
    summary,       \* summary_<ts>.txt written
    cpc,           \* position of crewai main
    ctask,         \* index in TaskOrder of the task the crew executes
    ctaskOutputs,  \* (task, output) pairs the crew has recorded, in order
    cresult,       \* value returned by crew.kickoff
    cerr,          \* exception raised inside the try block, or NoErr
    cret,          \* how crewai main ended: "none", "returned", "exit1"
    cfile,         \* crewai_output_<destination>.txt: what was written
    caller,        \* a caller that runs execute_workflow itself and re-runs it
    conc           \* two mains running concurrently in one working directory

vars == << script, pc, agents, outputs, locals, stage, prompt, attempts, remote,
           reply, replies, sent, err, ret, surfaced, file, summary,
           cpc, ctask, ctaskOutputs, cresult, cerr, cret, cfile, caller, conc >>

autogenVars == << pc, agents, outputs, locals, stage, prompt, attempts, remote,
                  reply, replies, sent, err, ret, surfaced, file, summary >>

crewVars == << cpc, ctask, ctaskOutputs, cresult, cerr, cret, cfile >>

\* State of the scenarios outside a single main(): untouched by main's steps.
extraVars == << caller, conc >>

----------------------------------------------------------------------------
(* Bounds of the model *)

\* longest model reply, in tokens
MaxLen == 1

\* number of successive answers of the remote that a scenario fixes
ScriptLen == 3

Alphabet == {"a", "b"}

Texts == UNION { [1..n -> Alphabet] : n \in 0..MaxLen }

NoErr == [kind |-> "none", stage |-> "none"]

ErrorKinds == {"transient", "fatal"}

Outcomes == {"ok"} \cup ErrorKinds

\* The remote's answers to the successive attempts of one phase: transient
\* failures, ended by a success or a fatal error or cut at ScriptLen.
Scripts ==
    { s \in UNION { [1..n -> Outcomes] : n \in 1..ScriptLen } :
        /\ \A i \in 1..(Len(s) - 1) : s[i] = "transient"
        /\ (Len(s) < ScriptLen => s[Len(s)] # "transient") }

\* The remote's answer to attempt n under script s.
Answer(s, n) == IF n <= Len(s) THEN s[n] ELSE s[Len(s)]

----------------------------------------------------------------------------
(* autogen_interview_platform.py: the pipeline definition *)

StageOrder == << "research", "analysis", "blueprint", "technical", "review" >>

StageNames == { StageOrder[i] : i \in 1..Len(StageOrder) }

StageIndex(name) == CHOOSE i \in 1..Len(StageOrder) : StageOrder[i] = name

\* The keys under which create_*_agent store the system messages, in the
\* order main calls them.
AgentOrder == << "research", "analysis", "blueprint", "technical", "reviewer" >>

\* The key self.agents_manager.agents[...] each phase reads.
AgentKey(name) == IF name = "review" THEN "reviewer" ELSE name

system_message(key) == << "system_message", key >>

\* The user messages of the five phases (f-strings around the arguments).
initial_message == << "Please conduct a comprehensive market analysis" >>

analysis_message(research_output) ==
    << "Based on the following market research", "RESEARCH FINDINGS:" >>
    \o research_output
    \o << "Please provide detailed analysis" >>

blueprint_message(research_output, analysis_output) ==
    << "Based on the market research and opportunity analysis below",
       "MARKET RESEARCH:" >>
    \o research_output
    \o << "OPPORTUNITY ANALYSIS:" >>
    \o analysis_output
    \o << "Please create a detailed product blueprint" >>

technical_message(blueprint_output) ==
    << "Please conduct a technical feasibility assessment", "PRODUCT BLUEPRINT:" >>
    \o blueprint_output
    \o << "Assess the technical feasibility" >>

\* Mutation of review_message: the f-string leaves out {technical_output}.
review_message_NoTechnical(blueprint_output, technical_output) ==
    << "Please review the following product blueprint and technical assessment",
       "PRODUCT BLUEPRINT:" >>
    \o blueprint_output
    \o << "TECHNICAL ASSESSMENT:" >>
    \o << "Provide comprehensive review" >>

review_message(blueprint_output, technical_output) ==
    << "Please review the following product blueprint and technical assessment",
       "PRODUCT BLUEPRINT:" >>
    \o blueprint_output
    \o << "TECHNICAL ASSESSMENT:" >>
    \o technical_output
    \o << "Provide comprehensive review" >>

\* Mutation of PhaseParams: execute_workflow passes analysis_output where the
\* technical phase expects blueprint_output.
PhaseParams_WrongLocal(name) ==
    CASE name = "research"  -> << >>
      [] name = "analysis"  -> << "research" >>
      [] name = "blueprint" -> << "research", "analysis" >>
      [] name = "technical" -> << "analysis" >>
      [] name = "review"    -> << "blueprint", "technical" >>

\* The *_output locals execute_workflow passes to each phase, in the order of
\* the phase's parameters, named by the phase that produced them.
PhaseParams(name) ==
    CASE name = "research"  -> << >>
      [] name = "analysis"  -> << "research" >>
      [] name = "blueprint" -> << "research", "analysis" >>
      [] name = "technical" -> << "blueprint" >>
      [] name = "review"    -> << "blueprint", "technical" >>

\* The argument list of a phase call: the current values of those locals.
PhaseArgs(name, lv) ==
    [i \in 1..Len(PhaseParams(name)) |->
        [name |-> PhaseParams(name)[i], text |-> lv[PhaseParams(name)[i]]]]

UserMessage(name, args) ==
    CASE name = "research"  -> initial_message
      [] name = "analysis"  -> analysis_message(args[1].text)
      [] name = "blueprint" -> blueprint_message(args[1].text, args[2].text)
      [] name = "technical" -> technical_message(args[1].text)
      [] name = "review"    -> review_message(args[1].text, args[2].text)

\* Mutation of Messages: the user message is listed before the system message.
Messages_UserFirst(name, sys, args) ==
    << [role |-> "user", content |-> UserMessage(name, args)],
       [role |-> "system", content |-> sys] >>

Messages(name, sys, args) ==
    << [role |-> "system", content |-> sys],
       [role |-> "user", content |-> UserMessage(name, args)] >>

----------------------------------------------------------------------------
(* OutputManager.save_outputs *)

Placeholder(name) == << "No", name, "output" >>

\* outputs.get(name, "No <name> output")
Get(mapping, name) ==
    IF name \in DOMAIN mapping THEN mapping[name] ELSE Placeholder(name)

\* Mutation of save_outputs: the sections are written in sorted key order.
save_outputs_Sorted(mapping) ==
    LET order == << "analysis", "blueprint", "research", "review", "technical" >> IN
    [i \in 1..Len(order) |-> [name |-> order[i], text |-> Get(mapping, order[i])]]

\* Mutation of save_outputs: the fifth section reads the key "reviewer", the
\* name the agent is registered under.
save_outputs_ReviewerKey(mapping) ==
    [i \in 1..Len(StageOrder) |->
        [name |-> AgentKey(StageOrder[i]), text |-> Get(mapping, AgentKey(StageOrder[i]))]]

save_outputs(mapping) ==
    [i \in 1..Len(StageOrder) |->
        [name |-> StageOrder[i], text |-> Get(mapping, StageOrder[i])]]

----------------------------------------------------------------------------
(* crewai_demo.py: the crew definition *)

TaskOrder == << "flight", "hotel", "itinerary", "transportation", "budget" >>

----------------------------------------------------------------------------
\* No caller other than main, and no second main: the values these keep in a
\* single run of a script.
NoCaller == [run |-> 0]

NoConc == [kind |-> "none"]

\* The state at the entry of a script, before main's first statement.
InitState ==
    /\ pc = "validate"
    /\ agents = << >>
    /\ outputs = << >>
    /\ locals = << >>
    /\ stage = 0
    /\ prompt = << >>
    /\ attempts = [n \in StageNames |-> 0]
    /\ remote = << >>
    /\ reply = << >>
    /\ replies = << >>
    /\ sent = << >>
    /\ err = NoErr
    /\ ret = "none"
    /\ surfaced = {}
    /\ file = << >>
    /\ summary = FALSE
    /\ cpc = "validate"
    /\ ctask = 0
    /\ ctaskOutputs = << >>
    /\ cresult = << >>
    /\ cerr = NoErr
    /\ cret = "none"
    /\ cfile = << >>

Init ==
    /\ script \in {"autogen", "crewai"}
    /\ InitState
    /\ caller = NoCaller
    /\ conc = NoConc

----------------------------------------------------------------------------
(* autogen_interview_platform.py: main() up to the workflow *)

StageName == StageOrder[stage]

\* Config.validate_setup() is false: main prints and returns False.
\* Mutation of ValidateFail: the configuration is validated only after the
\* agents manager was built and the five agents were created.
ValidateFail_AfterAgents ==
    /\ script = "autogen"
    /\ pc = "validate"
    /\ agents' = [i \in {"research", "analysis", "blueprint", "technical", "reviewer"} |->
                    system_message(i)]
    /\ ret' = "False"
    /\ pc' = "done"
    /\ UNCHANGED << script, outputs, locals, stage, prompt, attempts,
                    remote, reply, replies, sent, err, surfaced, file, summary >>
    /\ UNCHANGED crewVars
    /\ UNCHANGED extraVars

ValidateFail ==
    /\ script = "autogen"
    /\ pc = "validate"
    /\ ret' = "False"
    /\ pc' = "done"
    /\ UNCHANGED << script, agents, outputs, locals, stage, prompt, attempts,
                    remote, reply, replies, sent, err, surfaced, file, summary >>
    /\ UNCHANGED crewVars
    /\ UNCHANGED extraVars

\* Validation passes; InterviewPlatformAgents(config_list) starts with agents = {}.
ValidateOk ==
    /\ script = "autogen"
    /\ pc = "validate"
    /\ agents' = << >>
    /\ pc' = "create_agents"
    /\ UNCHANGED << script, outputs, locals, stage, prompt, attempts, remote,
                    reply, replies, sent, err, ret, surfaced, file, summary >>
    /\ UNCHANGED crewVars
    /\ UNCHANGED extraVars

\* The next of the five create_*_agent calls: self.agents[key] = system_message.
CreateAgent ==
    /\ script = "autogen"
    /\ pc = "create_agents"
    /\ LET key == AgentOrder[Cardinality(DOMAIN agents) + 1] IN
        /\ agents' = (key :> system_message(key)) @@ agents
        /\ pc' = IF Cardinality(DOMAIN agents) + 1 = Len(AgentOrder)
                 THEN "new_workflow" ELSE "create_agents"
    /\ UNCHANGED << script, outputs, locals, stage, prompt, attempts, remote,
                    reply, replies, sent, err, ret, surfaced, file, summary >>
    /\ UNCHANGED crewVars
    /\ UNCHANGED extraVars

\* InterviewPlatformWorkflow.__init__: self.outputs = {}.
NewWorkflow ==
    /\ script = "autogen"
    /\ pc = "new_workflow"
    /\ outputs' = << >>
    /\ pc' = "execute"
    /\ UNCHANGED << script, agents, locals, stage, prompt, attempts, remote,
                    reply, replies, sent, err, ret, surfaced, file, summary >>
    /\ UNCHANGED crewVars
    /\ UNCHANGED extraVars

----------------------------------------------------------------------------
(* InterviewPlatformWorkflow.execute_workflow and its five phases *)

\* Mutation of ExecuteWorkflow: a run on a workflow that already holds outputs
\* resumes after the last recorded phase, reading the stored outputs.
ExecuteWorkflow_Resume ==
    /\ script = "autogen"
    /\ pc = "execute"
    /\ locals' = outputs
    /\ stage' = IF \E i \in 1..Len(StageOrder) : StageOrder[i] \notin DOMAIN outputs
                THEN CHOOSE i \in 1..Len(StageOrder) :
                        /\ StageOrder[i] \notin DOMAIN outputs
                        /\ \A j \in 1..(i - 1) : StageOrder[j] \in DOMAIN outputs
                ELSE 1
    /\ pc' = "render"
    /\ UNCHANGED << script, agents, outputs, prompt, attempts, remote, reply,
                    replies, sent, err, ret, surfaced, file, summary >>
    /\ UNCHANGED crewVars
    /\ UNCHANGED extraVars

\* Entry of execute_workflow: no *_output local is bound yet; phase 1 is next.
ExecuteWorkflow ==
    /\ script = "autogen"
    /\ pc = "execute"
    /\ locals' = << >>
    /\ stage' = 1
    /\ pc' = "render"
    /\ UNCHANGED << script, agents, outputs, prompt, attempts, remote, reply,
                    replies, sent, err, ret, surfaced, file, summary >>
    /\ UNCHANGED crewVars
    /\ UNCHANGED extraVars

\* A phase reads its agent's system message (a KeyError when the key is not
\* registered) and formats its user message from the arguments it was passed.
\* Mutation of RenderPrompt: a missing agent is replaced by an empty system
\* message (agents.get(key, "")) and the phase goes on to its call.
RenderPrompt_DefaultSystem ==
    /\ script = "autogen"
    /\ pc = "render"
    /\ prompt' = Messages(StageName,
                          IF AgentKey(StageName) \in DOMAIN agents
                          THEN agents[AgentKey(StageName)] ELSE << >>,
                          PhaseArgs(StageName, locals))
    /\ pc' = "call"
    /\ UNCHANGED << script, agents, outputs, locals, stage, attempts, remote,
                    reply, replies, sent, err, ret, surfaced, file, summary >>
    /\ UNCHANGED crewVars
    /\ UNCHANGED extraVars

RenderPrompt ==
    /\ script = "autogen"
    /\ pc = "render"
    /\ IF AgentKey(StageName) \in DOMAIN agents
       THEN /\ prompt' = Messages(StageName, agents[AgentKey(StageName)],
                                  PhaseArgs(StageName, locals))
            /\ pc' = "call"
            /\ err' = err
       ELSE /\ prompt' = prompt
            /\ pc' = "except"
            /\ err' = [kind |-> "KeyError", stage |-> StageName]
    /\ UNCHANGED << script, agents, outputs, locals, stage, attempts, remote,
                    reply, replies, sent, ret, surfaced, file, summary >>
    /\ UNCHANGED crewVars
    /\ UNCHANGED extraVars

\* Mutation of CallModel: the phase stores an empty entry under its name
\* before the call is made.
CallModel_PreStore ==
    /\ script = "autogen"
    /\ pc = "call"
    /\ attempts' = [attempts EXCEPT ![StageName] = @ + 1]
    /\ IF StageName \in DOMAIN remote
       THEN remote' = remote
       ELSE \E sc \in Scripts : remote' = (StageName :> sc) @@ remote
    /\ sent' = Append(sent, [stage |-> StageName,
                             messages |-> prompt,
                             args |-> PhaseArgs(StageName, locals)])
    /\ outputs' = (StageName :> << >>) @@ outputs
    /\ pc' = "await"
    /\ UNCHANGED << script, agents, locals, stage, prompt, reply,
                    replies, err, ret, surfaced, file, summary >>
    /\ UNCHANGED crewVars
    /\ UNCHANGED extraVars

\* Mutation of CallModel: a request identical to an earlier one is answered
\* from a cache of replies instead of being sent.
CallModel_Cached ==
    /\ script = "autogen"
    /\ pc = "call"
    /\ IF /\ StageName \in DOMAIN replies
          /\ \E k \in 1..Len(sent) : sent[k].stage = StageName /\ sent[k].messages = prompt
       THEN /\ reply' = replies[StageName]
            /\ pc' = "record"
            /\ UNCHANGED << attempts, remote, sent >>
       ELSE /\ attempts' = [attempts EXCEPT ![StageName] = @ + 1]
            /\ IF StageName \in DOMAIN remote
               THEN remote' = remote
               ELSE \E sc \in Scripts : remote' = (StageName :> sc) @@ remote
            /\ sent' = Append(sent, [stage |-> StageName,
                                     messages |-> prompt,
                                     args |-> PhaseArgs(StageName, locals)])
            /\ pc' = "await"
            /\ reply' = reply
    /\ UNCHANGED << script, agents, outputs, locals, stage, prompt,
                    replies, err, ret, surfaced, file, summary >>
    /\ UNCHANGED crewVars
    /\ UNCHANGED extraVars

\* client.chat.completions.create(messages=[system, user]) is invoked; how the
\* remote will answer this phase's successive attempts is fixed at the first.
CallModel ==
    /\ script = "autogen"
    /\ pc = "call"
    /\ attempts' = [attempts EXCEPT ![StageName] = @ + 1]
    /\ IF StageName \in DOMAIN remote
       THEN remote' = remote
       ELSE \E s \in Scripts : remote' = (StageName :> s) @@ remote
    /\ sent' = Append(sent, [stage |-> StageName,
                             messages |-> prompt,
                             args |-> PhaseArgs(StageName, locals)])
    /\ pc' = "await"
    /\ UNCHANGED << script, agents, outputs, locals, stage, prompt, reply,
                    replies, err, ret, surfaced, file, summary >>
    /\ UNCHANGED crewVars
    /\ UNCHANGED extraVars

\* The call returns the text t: <phase>_output = response.choices[0].message.content.
ModelReturnText(t) ==
    /\ script = "autogen"
    /\ pc = "await"
    /\ Answer(remote[StageName], attempts[StageName]) = "ok"
    /\ reply' = t
    /\ replies' = (StageName :> t) @@ replies
    /\ pc' = "record"
    /\ UNCHANGED << script, agents, outputs, locals, stage, prompt, attempts,
                    remote, sent, err, ret, surfaced, file, summary >>
    /\ UNCHANGED crewVars
    /\ UNCHANGED extraVars

\* The remote may return any text.
ModelReturn == \E t \in Texts : ModelReturnText(t)

\* Mutation of ModelRaise: the failed phase stores a default text before the
\* exception unwinds.
ModelRaise_Placeholder ==
    /\ script = "autogen"
    /\ pc = "await"
    /\ Answer(remote[StageName], attempts[StageName]) \in ErrorKinds
    /\ err' = [kind |-> Answer(remote[StageName], attempts[StageName]),
               stage |-> StageName]
    /\ outputs' = (StageName :> Placeholder(StageName)) @@ outputs
    /\ pc' = "except"
    /\ UNCHANGED << script, agents, locals, stage, prompt, attempts,
                    remote, reply, replies, sent, ret, surfaced, file, summary >>
    /\ UNCHANGED crewVars
    /\ UNCHANGED extraVars

\* Mutation of ModelRaise: a transient failure is retried, up to three attempts.
ModelRaise_RetryTransient ==
    /\ script = "autogen"
    /\ pc = "await"
    /\ Answer(remote[StageName], attempts[StageName]) \in ErrorKinds
    /\ IF /\ Answer(remote[StageName], attempts[StageName]) = "transient"
          /\ attempts[StageName] < 3
       THEN /\ pc' = "call"
            /\ err' = err
       ELSE /\ pc' = "except"
            /\ err' = [kind |-> Answer(remote[StageName], attempts[StageName]),
                       stage |-> StageName]
    /\ UNCHANGED << script, agents, outputs, locals, stage, prompt, attempts,
                    remote, reply, replies, sent, ret, surfaced, file, summary >>
    /\ UNCHANGED crewVars
    /\ UNCHANGED extraVars

\* Mutation of ModelRaise: any failure, fatal ones included, is retried.
ModelRaise_RetryAny ==
    /\ script = "autogen"
    /\ pc = "await"
    /\ Answer(remote[StageName], attempts[StageName]) \in ErrorKinds
    /\ IF attempts[StageName] < 3
       THEN /\ pc' = "call"
            /\ err' = err
       ELSE /\ pc' = "except"
            /\ err' = [kind |-> Answer(remote[StageName], attempts[StageName]),
                       stage |-> StageName]
    /\ UNCHANGED << script, agents, outputs, locals, stage, prompt, attempts,
                    remote, reply, replies, sent, ret, surfaced, file, summary >>
    /\ UNCHANGED crewVars
    /\ UNCHANGED extraVars

\* Mutation of ModelRaise: the exception is swallowed inside the phase and
\* the phase goes on with an empty output.
ModelRaise_AsEmptyReply ==
    /\ script = "autogen"
    /\ pc = "await"
    /\ Answer(remote[StageName], attempts[StageName]) \in ErrorKinds
    /\ reply' = << >>
    /\ pc' = "record"
    /\ UNCHANGED << script, agents, outputs, locals, stage, prompt, attempts,
                    remote, replies, sent, err, ret, surfaced, file, summary >>
    /\ UNCHANGED crewVars
    /\ UNCHANGED extraVars

\* The call raises: nothing in the phase or in execute_workflow catches it, so
\* the exception unwinds to the except clause of main.
ModelRaise ==
    /\ script = "autogen"
    /\ pc = "await"
    /\ Answer(remote[StageName], attempts[StageName]) \in ErrorKinds
    /\ err' = [kind |-> Answer(remote[StageName], attempts[StageName]),
               stage |-> StageName]
    /\ pc' = "except"
    /\ UNCHANGED << script, agents, outputs, locals, stage, prompt, attempts,
                    remote, reply, replies, sent, ret, surfaced, file, summary >>
    /\ UNCHANGED crewVars
    /\ UNCHANGED extraVars

\* Mutation of RecordOutput: the phase returns its output without storing it
\* in self.outputs.
RecordOutput_NoStore ==
    /\ script = "autogen"
    /\ pc = "record"
    /\ outputs' = outputs
    /\ locals' = (StageName :> reply) @@ locals
    /\ prompt' = << >>
    /\ IF stage < Len(StageOrder)
       THEN /\ stage' = stage + 1
            /\ pc' = "render"
       ELSE /\ stage' = stage
            /\ pc' = "save"
    /\ UNCHANGED << script, agents, attempts, remote, reply, replies, sent,
                    err, ret, surfaced, file, summary >>
    /\ UNCHANGED crewVars
    /\ UNCHANGED extraVars

\* Mutation of RecordOutput: the output is stored under the agent's key
\* ("reviewer") instead of the phase's ("review").
RecordOutput_WrongKey ==
    /\ script = "autogen"
    /\ pc = "record"
    /\ outputs' = (AgentKey(StageName) :> reply) @@ outputs
    /\ locals' = (StageName :> reply) @@ locals
    /\ prompt' = << >>
    /\ IF stage < Len(StageOrder)
       THEN /\ stage' = stage + 1
            /\ pc' = "render"
       ELSE /\ stage' = stage
            /\ pc' = "save"
    /\ UNCHANGED << script, agents, attempts, remote, reply, replies, sent,
                    err, ret, surfaced, file, summary >>
    /\ UNCHANGED crewVars
    /\ UNCHANGED extraVars

\* Mutation of RecordOutput: execute_workflow returns after the technical
\* phase, without calling the review phase.
RecordOutput_StopEarly ==
    /\ script = "autogen"
    /\ pc = "record"
    /\ outputs' = (StageName :> reply) @@ outputs
    /\ locals' = (StageName :> reply) @@ locals
    /\ prompt' = << >>
    /\ IF stage < Len(StageOrder) - 1
       THEN /\ stage' = stage + 1
            /\ pc' = "render"
       ELSE /\ stage' = stage
            /\ pc' = "save"
    /\ UNCHANGED << script, agents, attempts, remote, reply, replies, sent,
                    err, ret, surfaced, file, summary >>
    /\ UNCHANGED crewVars
    /\ UNCHANGED extraVars

\* Mutation of RecordOutput: the phase rebinds the mapping to one holding only
\* its own entry (self.outputs = {phase: output}).
RecordOutput_Replace ==
    /\ script = "autogen"
    /\ pc = "record"
    /\ outputs' = (StageName :> reply)
    /\ locals' = (StageName :> reply) @@ locals
    /\ prompt' = << >>
    /\ IF stage < Len(StageOrder)
       THEN /\ stage' = stage + 1
            /\ pc' = "render"
       ELSE /\ stage' = stage
            /\ pc' = "save"
    /\ UNCHANGED << script, agents, attempts, remote, reply, replies, sent,
                    err, ret, surfaced, file, summary >>
    /\ UNCHANGED crewVars
    /\ UNCHANGED extraVars

\* self.outputs[<phase>] = <phase>_output; return <phase>_output. After the
\* fifth phase execute_workflow returns self.outputs to main.
RecordOutput ==
    /\ script = "autogen"
    /\ pc = "record"
    /\ outputs' = (StageName :> reply) @@ outputs
    /\ locals' = (StageName :> reply) @@ locals
    /\ prompt' = << >>
    /\ IF stage < Len(StageOrder)
       THEN /\ stage' = stage + 1
            /\ pc' = "render"
       ELSE /\ stage' = stage
            /\ pc' = "save"
    /\ UNCHANGED << script, agents, attempts, remote, reply, replies, sent,
                    err, ret, surfaced, file, summary >>
    /\ UNCHANGED crewVars
    /\ UNCHANGED extraVars

----------------------------------------------------------------------------
(* autogen_interview_platform.py: main() after the workflow *)

\* output_manager.save_outputs(outputs)
SaveOutputs ==
    /\ script = "autogen"
    /\ pc = "save"
    /\ file' = save_outputs(outputs)
    /\ pc' = "summary"
    /\ UNCHANGED << script, agents, outputs, locals, stage, prompt, attempts,
                    remote, reply, replies, sent, err, ret, surfaced, summary >>
    /\ UNCHANGED crewVars
    /\ UNCHANGED extraVars

\* output_manager.create_summary(outputs); main returns True.
CreateSummary ==
    /\ script = "autogen"
    /\ pc = "summary"
    /\ summary' = TRUE
    /\ ret' = "True"
    /\ pc' = "done"
    /\ UNCHANGED << script, agents, outputs, locals, stage, prompt, attempts,
                    remote, reply, replies, sent, err, surfaced, file >>
    /\ UNCHANGED crewVars
    /\ UNCHANGED extraVars

\* except Exception as e: print(str(e)) and the hints, then raise. What leaves
\* main is the client's exception: its kind, nothing about the phase.
HandleException ==
    /\ script = "autogen"
    /\ pc = "except"
    /\ surfaced' = { << "kind", err.kind >> }
    /\ ret' = "raised"
    /\ pc' = "done"
    /\ UNCHANGED << script, agents, outputs, locals, stage, prompt, attempts,
                    remote, reply, replies, sent, err, file, summary >>
    /\ UNCHANGED crewVars
    /\ UNCHANGED extraVars

----------------------------------------------------------------------------
(* crewai_demo.py: main() *)

\* validate_config() is false: exit(1).
CrewValidateFail ==
    /\ script = "crewai"
    /\ cpc = "validate"
    /\ cret' = "exit1"
    /\ cpc' = "done"
    /\ UNCHANGED << script, ctask, ctaskOutputs, cresult, cerr, cfile >>
    /\ UNCHANGED autogenVars
    /\ UNCHANGED extraVars

\* Validation passes; os.environ is set; agents, tasks and the Crew are built.
CrewBuild ==
    /\ script = "crewai"
    /\ cpc = "validate"
    /\ cpc' = "kickoff"
    /\ UNCHANGED << script, ctask, ctaskOutputs, cresult, cerr, cret, cfile >>
    /\ UNCHANGED autogenVars
    /\ UNCHANGED extraVars

\* Mutation of CrewKickoff: the report file is opened with "w" before
\* kickoff is called, which creates or truncates it.
CrewKickoff_OpensFileFirst ==
    /\ script = "crewai"
    /\ cpc = "kickoff"
    /\ ctask' = 1
    /\ cpc' = "task"
    /\ cfile' = << [name |-> "FINAL TRAVEL PLAN REPORT:", text |-> << >>] >>
    /\ UNCHANGED << script, ctaskOutputs, cresult, cerr, cret >>
    /\ UNCHANGED autogenVars
    /\ UNCHANGED extraVars

\* crew.kickoff(inputs=...) inside the try block: the first task starts.
CrewKickoff ==
    /\ script = "crewai"
    /\ cpc = "kickoff"
    /\ ctask' = 1
    /\ cpc' = "task"
    /\ UNCHANGED << script, ctaskOutputs, cresult, cerr, cret, cfile >>
    /\ UNCHANGED autogenVars
    /\ UNCHANGED extraVars

\* process="sequential": the current task finishes with an output and the next
\* task of tasks=[...] starts; after the last one kickoff returns its output.
CrewTaskDone ==
    /\ script = "crewai"
    /\ cpc = "task"
    /\ \E t \in Texts :
        /\ ctaskOutputs' = Append(ctaskOutputs, [name |-> TaskOrder[ctask], text |-> t])
        /\ IF ctask < Len(TaskOrder)
           THEN /\ ctask' = ctask + 1
                /\ cpc' = "task"
                /\ cresult' = cresult
           ELSE /\ ctask' = ctask
                /\ cpc' = "write"
                /\ cresult' = t
    /\ UNCHANGED << script, cerr, cret, cfile >>
    /\ UNCHANGED autogenVars
    /\ UNCHANGED extraVars

\* kickoff raises while a task runs: control goes to except Exception.
CrewTaskRaise ==
    /\ script = "crewai"
    /\ cpc = "task"
    /\ \E k \in ErrorKinds : cerr' = [kind |-> k, stage |-> TaskOrder[ctask]]
    /\ cpc' = "except"
    /\ UNCHANGED << script, ctask, ctaskOutputs, cresult, cret, cfile >>
    /\ UNCHANGED autogenVars
    /\ UNCHANGED extraVars

\* After kickoff returned: open(output_path, "w") and f.write(str(result))
\* between the report's fixed header and footer; main then returns.
CrewWriteOutput ==
    /\ script = "crewai"
    /\ cpc = "write"
    /\ cfile' = << [name |-> "FINAL TRAVEL PLAN REPORT:", text |-> cresult] >>
    /\ cret' = "returned"
    /\ cpc' = "done"
    /\ UNCHANGED << script, ctask, ctaskOutputs, cresult, cerr >>
    /\ UNCHANGED autogenVars
    /\ UNCHANGED extraVars

\* except Exception as e: prints the error, hints and traceback; no raise, so
\* main returns normally.
CrewHandleException ==
    /\ script = "crewai"
    /\ cpc = "except"
    /\ cret' = "returned"
    /\ cpc' = "done"
    /\ UNCHANGED << script, ctask, ctaskOutputs, cresult, cerr, cfile >>
    /\ UNCHANGED autogenVars
    /\ UNCHANGED extraVars

----------------------------------------------------------------------------
Next ==
    \/ ValidateFail
    \/ ValidateOk
    \/ CreateAgent
    \/ NewWorkflow
    \/ ExecuteWorkflow
    \/ RenderPrompt
    \/ CallModel
    \/ ModelReturn
    \/ ModelRaise
    \/ RecordOutput
    \/ SaveOutputs
    \/ CreateSummary
    \/ HandleException
    \/ CrewValidateFail
    \/ CrewBuild
    \/ CrewKickoff
    \/ CrewTaskDone
    \/ CrewTaskRaise
    \/ CrewWriteOutput
    \/ CrewHandleException

Spec == Init /\ [][Next]_vars

----------------------------------------------------------------------------
(* The save_outputs contract on its own: OutputManager.save_outputs applied   *)
(* to any mapping from a subset of the phase names to texts.                  *)

Mappings == UNION { [D -> Texts] : D \in SUBSET StageNames }

InitSave ==
    /\ script = "autogen"
    /\ pc = "save"
    /\ agents = << >>
    /\ outputs \in Mappings
    /\ locals = << >>
    /\ stage = 0
    /\ prompt = << >>
    /\ attempts = [n \in StageNames |-> 0]
    /\ remote = << >>
    /\ reply = << >>
    /\ replies = << >>
    /\ sent = << >>
    /\ err = NoErr
    /\ ret = "none"
    /\ surfaced = {}
    /\ file = << >>
    /\ summary = FALSE
    /\ cpc = "validate"
    /\ ctask = 0
    /\ ctaskOutputs = << >>
    /\ cresult = << >>
    /\ cerr = NoErr
    /\ cret = "none"
    /\ cfile = << >>
    /\ caller = NoCaller
    /\ conc = NoConc

NextSave == SaveOutputs \/ CreateSummary

SpecSave == InitSave /\ [][NextSave]_vars

----------------------------------------------------------------------------
(* A caller that uses the classes as main does, but calls execute_workflow     *)
(* itself, keeps the mapping it returns (or catches the exception) and runs    *)
(* the pipeline a second time: on the same InterviewPlatformWorkflow or on a   *)
(* newly constructed one over the same agents manager. In this scenario the    *)
(* remote answers every call of run r with the text caller.seeds[r].           *)

InitRerun ==
    /\ script = "autogen"
    /\ InitState
    /\ \E t1 \in Texts, t2 \in Texts :
        caller = [run |-> 1, wf |-> 1, seeds |-> << t1, t2 >>, held |-> << >>,
                  heap |-> << >>, first |-> 1]
    /\ conc = NoConc

\* The remote's reply in the current run.
RerunModelReturn == ModelReturnText(caller.seeds[caller.run])

\* execute_workflow returned self.outputs: the caller keeps that reference.
CallerTakesResult ==
    /\ script = "autogen"
    /\ caller.run \in {1, 2}
    /\ pc = "save"
    /\ caller' = [caller EXCEPT !.held =
                    Append(@, [wf |-> caller.wf, state |-> "Completed", stage |-> "none",
                               snapshot |-> outputs,
                               first |-> caller.first, last |-> Len(sent)])]
    /\ pc' = "caller"
    /\ UNCHANGED << script, agents, outputs, locals, stage, prompt, attempts, remote,
                    reply, replies, sent, err, ret, surfaced, file, summary, conc >>
    /\ UNCHANGED crewVars

\* execute_workflow raised: the caller catches the exception; the workflow
\* object and its outputs attribute stay reachable.
CallerCatches ==
    /\ script = "autogen"
    /\ caller.run \in {1, 2}
    /\ pc = "except"
    /\ caller' = [caller EXCEPT !.held =
                    Append(@, [wf |-> caller.wf, state |-> "Failed", stage |-> err.stage,
                               snapshot |-> outputs,
                               first |-> caller.first, last |-> Len(sent)])]
    /\ pc' = "caller"
    /\ UNCHANGED << script, agents, outputs, locals, stage, prompt, attempts, remote,
                    reply, replies, sent, err, ret, surfaced, file, summary, conc >>
    /\ UNCHANGED crewVars

\* workflow.execute_workflow() is called again on the same workflow object:
\* nothing resets self.outputs.
RerunSame ==
    /\ script = "autogen"
    /\ caller.run = 1
    /\ pc = "caller"
    /\ caller' = [caller EXCEPT !.run = 2, !.first = Len(sent) + 1]
    /\ err' = NoErr
    /\ pc' = "execute"
    /\ UNCHANGED << script, agents, outputs, locals, stage, prompt, attempts, remote,
                    reply, replies, sent, ret, surfaced, file, summary, conc >>
    /\ UNCHANGED crewVars

\* InterviewPlatformWorkflow(agents_manager) is constructed anew (its outputs
\* = {}) and executed; the first workflow's dict keeps what it held.
RerunFresh ==
    /\ script = "autogen"
    /\ caller.run = 1
    /\ pc = "caller"
    /\ caller' = [caller EXCEPT !.run = 2, !.wf = 2, !.heap = outputs,
                                !.first = Len(sent) + 1]
    /\ outputs' = << >>
    /\ err' = NoErr
    /\ pc' = "execute"
    /\ UNCHANGED << script, agents, locals, stage, prompt, attempts, remote,
                    reply, replies, sent, ret, surfaced, file, summary, conc >>
    /\ UNCHANGED crewVars

NextRerun ==
    \/ ValidateOk
    \/ CreateAgent
    \/ NewWorkflow
    \/ ExecuteWorkflow
    \/ RenderPrompt
    \/ CallModel
    \/ RerunModelReturn
    \/ ModelRaise
    \/ RecordOutput
    \/ CallerTakesResult
    \/ CallerCatches
    \/ RerunSame
    \/ RerunFresh

SpecRerun == InitRerun /\ [][NextRerun]_vars

\* What the mapping kept from an earlier run holds now: the dict of the
\* workflow object it was returned from.
Content(h) == IF h.wf = caller.wf THEN outputs ELSE caller.heap

----------------------------------------------------------------------------
(* main interrupted while a phase waits for the remote: KeyboardInterrupt is   *)
(* raised inside client.chat.completions.create. It is not an Exception, so    *)
(* main's handler does not run; it unwinds the phase, execute_workflow and     *)
(* main without executing another statement of them.                           *)

Interrupt ==
    /\ script = "autogen"
    /\ pc = "await"
    /\ err' = [kind |-> "interrupt", stage |-> StageName]
    /\ ret' = "raised"
    /\ pc' = "done"
    /\ UNCHANGED << script, agents, outputs, locals, stage, prompt, attempts,
                    remote, reply, replies, sent, surfaced, file, summary >>
    /\ UNCHANGED crewVars
    /\ UNCHANGED extraVars

NextCancel ==
    \/ Next
    \/ Interrupt

SpecCancel == Init /\ [][NextCancel]_vars

----------------------------------------------------------------------------
(* A workflow constructed over an agents manager on which any subset of the    *)
(* create_*_agent methods was called (main calls all five, lines 499-512).     *)

AgentKeys == { AgentOrder[i] : i \in 1..Len(AgentOrder) }

InitDef ==
    /\ script = "autogen"
    /\ pc = "new_workflow"
    /\ \E registered \in SUBSET AgentKeys :
        agents = [key \in registered |-> system_message(key)]
    /\ outputs = << >>
    /\ locals = << >>
    /\ stage = 0
    /\ prompt = << >>
    /\ attempts = [n \in StageNames |-> 0]
    /\ remote = << >>
    /\ reply = << >>
    /\ replies = << >>
    /\ sent = << >>
    /\ err = NoErr
    /\ ret = "none"
    /\ surfaced = {}
    /\ file = << >>
    /\ summary = FALSE
    /\ cpc = "validate"
    /\ ctask = 0
    /\ ctaskOutputs = << >>
    /\ cresult = << >>
    /\ cerr = NoErr
    /\ cret = "none"
    /\ cfile = << >>
    /\ caller = NoCaller
    /\ conc = NoConc

NextDef ==
    \/ NewWorkflow
    \/ ExecuteWorkflow
    \/ RenderPrompt
    \/ CallModel
    \/ ModelReturn
    \/ ModelRaise
    \/ RecordOutput
    \/ SaveOutputs
    \/ CreateSummary
    \/ HandleException

SpecDef == InitDef /\ [][NextDef]_vars

\* Some phase of the pipeline names an agent that was never registered.
MissingReference == AgentKeys \ DOMAIN agents # {}

----------------------------------------------------------------------------
(* Two runs of one script's main executing concurrently in the same working    *)
(* directory. Each run is taken in the steps that touch state outside its own  *)
(* frame: the process environment, the clock and the output files. Run r gets  *)
(* the text conc.seed[r] as every reply (autogen) or as kickoff's result.      *)

Runs == {1, 2}

Destinations == {"Iceland", "iceland", "France"}

\* destination.lower()
Lower(destination) ==
    CASE destination = "Iceland" -> "iceland"
      [] destination = "iceland" -> "iceland"
      [] destination = "France"  -> "france"

\* datetime.now().strftime("%Y%m%d_%H%M%S"): the clock read to the second.
Seconds == {"20260115_120000", "20260115_120001"}

\* f"crewai_output_{destination.lower()}.txt"
CrewOutputPath(destination) == << "crewai_output_", Lower(destination), ".txt" >>

\* f"workflow_outputs_{self.timestamp}.txt"
WorkflowOutputPath(timestamp) == << "workflow_outputs_", timestamp, ".txt" >>

\* What execute_workflow returns when every reply is t.
MappingOf(t) == [n \in StageNames |-> t]

InitConc ==
    /\ script \in {"autogen", "crewai"}
    /\ InitState
    /\ caller = NoCaller
    /\ \E d1 \in Destinations, d2 \in Destinations, t1 \in Texts, t2 \in Texts :
        conc = [kind |-> script,
                clock |-> "20260115_120000",
                destination |-> IF script = "crewai" THEN << d1, d2 >>
                                ELSE << "none", "none" >>,
                seed |-> << t1, t2 >>,
                pc |-> << "start", "start" >>,
                timestamp |-> << "none", "none" >>,
                path |-> << << >>, << >> >>,
                environ |-> {},
                files |-> << >>]

\* os.environ["OPENAI_API_KEY"] = Config.API_KEY (and the other two keys).
ConcSetEnviron(r) ==
    /\ conc.kind = "crewai"
    /\ conc.pc[r] = "start"
    /\ conc' = [conc EXCEPT !.environ = @ \cup {r}, !.pc[r] = "kickoff"]
    /\ UNCHANGED << script, autogenVars, crewVars, caller >>

\* crew.kickoff(inputs=...) returns, then the report is written with
\* open(output_path, "w").
ConcWriteOutput(r) ==
    /\ conc.kind = "crewai"
    /\ conc.pc[r] = "kickoff"
    /\ LET output_path == CrewOutputPath(conc.destination[r]) IN
        conc' = [conc EXCEPT !.path[r] = output_path,
                             !.files = (output_path :> << [name |-> "result",
                                                           text |-> conc.seed[r]] >>) @@ @,
                             !.pc[r] = "done"]
    /\ UNCHANGED << script, autogenVars, crewVars, caller >>

\* outputs = workflow.execute_workflow(); output_manager = OutputManager()
\* reads the clock.
ConcOutputManager(r) ==
    /\ conc.kind = "autogen"
    /\ conc.pc[r] = "start"
    /\ conc' = [conc EXCEPT !.timestamp[r] = conc.clock, !.pc[r] = "save"]
    /\ UNCHANGED << script, autogenVars, crewVars, caller >>

\* output_manager.save_outputs(outputs): open(output_file, 'w') and the
\* sections.
ConcSaveOutputs(r) ==
    /\ conc.kind = "autogen"
    /\ conc.pc[r] = "save"
    /\ LET output_file == WorkflowOutputPath(conc.timestamp[r]) IN
        conc' = [conc EXCEPT !.path[r] = output_file,
                             !.files = (output_file :> save_outputs(MappingOf(conc.seed[r]))) @@ @,
                             !.pc[r] = "done"]
    /\ UNCHANGED << script, autogenVars, crewVars, caller >>

\* A second passes.
ConcTick ==
    /\ conc.kind = "autogen"
    /\ conc.clock = "20260115_120000"
    /\ conc' = [conc EXCEPT !.clock = "20260115_120001"]
    /\ UNCHANGED << script, autogenVars, crewVars, caller >>

NextConc ==
    \/ \E r \in Runs : ConcSetEnviron(r)
    \/ \E r \in Runs : ConcWriteOutput(r)
    \/ \E r \in Runs : ConcOutputManager(r)
    \/ \E r \in Runs : ConcSaveOutputs(r)
    \/ ConcTick

SpecConc == InitConc /\ [][NextConc]_vars

\* The file contents run r persists when it runs alone.
AloneOutput(r) ==
    IF conc.kind = "crewai"
    THEN << [name |-> "result", text |-> conc.seed[r]] >>
    ELSE save_outputs(MappingOf(conc.seed[r]))

----------------------------------------------------------------------------
(* main under fair scheduling: the interpreter executes the next statement,    *)
(* and every model call eventually returns or raises.                          *)

SpecLive == Init /\ [][Next]_vars /\ WF_vars(Next)

----------------------------------------------------------------------------
(* crewai_demo.py: create_hotel_agent and create_hotel_task. A destination is  *)
(* a sequence of characters, so that destination.lower() is a conversion.      *)

\* The letters of the three names, as (lower case, upper case).
CasePairs ==
    { << "i", "I" >>, << "c", "C" >>, << "e", "E" >>, << "l", "L" >>, << "a", "A" >>,
      << "n", "N" >>, << "d", "D" >>, << "f", "F" >>, << "r", "R" >>, << "j", "J" >>,
      << "p", "P" >> }

\* str.lower() on one character: an upper-case letter becomes its lower-case
\* form, any other character stays.
LowerChar(c) ==
    IF \E p \in CasePairs : p[2] = c
    THEN (CHOOSE p \in CasePairs : p[2] = c)[1]
    ELSE c

\* destination.lower()
str_lower(destination) == [i \in 1..Len(destination) |-> LowerChar(destination[i])]

iceland == << "i", "c", "e", "l", "a", "n", "d" >>
france == << "f", "r", "a", "n", "c", "e" >>
japan == << "j", "a", "p", "a", "n" >>
Reykjavik == << "R", "e", "y", "k", "j", "a", "v", "i", "k" >>
Paris == << "P", "a", "r", "i", "s" >>
Tokyo == << "T", "o", "k", "y", "o" >>

\* Mutation of create_hotel_task: the destination is compared without lower().
create_hotel_task_CaseSensitive(destination) ==
    IF destination = iceland THEN Reykjavik
    ELSE IF destination = france THEN Paris
    ELSE IF destination = japan THEN Tokyo
    ELSE destination

\* hotel_location as create_hotel_agent computes it for its goal.
create_hotel_agent(destination) ==
    IF str_lower(destination) = iceland THEN Reykjavik
    ELSE IF str_lower(destination) = france THEN Paris
    ELSE IF str_lower(destination) = japan THEN Tokyo
    ELSE destination

\* hotel_location as create_hotel_task computes it for its description.
create_hotel_task(destination) ==
    IF str_lower(destination) = iceland THEN Reykjavik
    ELSE IF str_lower(destination) = france THEN Paris
    ELSE IF str_lower(destination) = japan THEN Tokyo
    ELSE destination

\* Every spelling of a name in upper- and lower-case letters.
RECURSIVE Spellings(_)
Spellings(name) ==
    IF name = << >> THEN { << >> }
    ELSE LET cases == { Head(name) } \cup { p[2] : p \in { q \in CasePairs : q[1] = Head(name) } }
         IN  { << c >> \o w : c \in cases, w \in Spellings(Tail(name)) }

\* Destinations that are none of the three names.
OtherDestinations ==
    { << >>,
      << "I", "t", "a", "l", "y" >>,
      << "i", "c", "e", "l", "a", "n" >>,
      << "I", "c", "e", "l", "a", "n", "d", " " >>,
      << " ", "j", "a", "p", "a", "n" >>,
      << "R", "e", "y", "k", "j", "a", "v", "i", "k" >>,
      << "F", "r", "a", "n", "c", "e", "s" >> }

HotelDestinations ==
    Spellings(iceland) \cup Spellings(france) \cup Spellings(japan) \cup OtherDestinations

InitHotel ==
    /\ script = "crewai"
    /\ InitState
    /\ caller = NoCaller
    /\ \E d \in HotelDestinations :
        conc = [kind |-> "hotel", pc |-> "hotel_agent", destination |-> d,
                agent_location |-> << >>, task_location |-> << >>]

\* hotel_agent = create_hotel_agent(destination, trip_dates)
HotelAgent ==
    /\ conc.kind = "hotel"
    /\ conc.pc = "hotel_agent"
    /\ conc' = [conc EXCEPT !.agent_location = create_hotel_agent(conc.destination),
                            !.pc = "hotel_task"]
    /\ UNCHANGED << script, autogenVars, crewVars, caller >>

\* hotel_task = create_hotel_task(hotel_agent, destination, trip_dates)
HotelTask ==
    /\ conc.kind = "hotel"
    /\ conc.pc = "hotel_task"
    /\ conc' = [conc EXCEPT !.task_location = create_hotel_task(conc.destination),
                            !.pc = "done"]
    /\ UNCHANGED << script, autogenVars, crewVars, caller >>

NextHotel ==
    \/ HotelAgent
    \/ HotelTask

SpecHotel == InitHotel /\ [][NextHotel]_vars

----------------------------------------------------------------------------
(* Vocabulary of the claims *)

\* The phases declared before phase `name`.
Earlier(name) == { StageOrder[j] : j \in 1..(StageIndex(name) - 1) }

\* The phase names a request was rendered from.
Supplied(request) == { request.args[i].name : i \in 1..Len(request.args) }

\* execute_workflow is executing a phase.
Running == script = "autogen" /\ pc \in {"render", "call", "await", "record"}

\* execute_workflow returned its mapping to main.
Completed == script = "autogen" /\ pc \in {"save", "summary", "done"} /\ ret \in {"none", "True"}
             /\ err = NoErr /\ stage = Len(StageOrder)

\* An exception left execute_workflow.
Failed == script = "autogen" /\ pc \in {"except", "done"} /\ err # NoErr

\* The (phase, text) pairs of a mapping holding every phase, in declared order.
Pairs(mapping) ==
    [i \in 1..Len(StageOrder) |-> [name |-> StageOrder[i], text |-> mapping[StageOrder[i]]]]

TransientTwiceThenOk == << "transient", "transient", "ok" >>

----------------------------------------------------------------------------
(* C1: phases run strictly in declared order: while phase i (i > 1) renders,  *)
(* calls the model or records, the results of all phases before it are in     *)
(* self.outputs; the crew starts task i only with tasks 1..i-1 recorded.      *)
C1_StagesInSequence ==
    /\ Running =>
         \A j \in 1..(stage - 1) : StageOrder[j] \in DOMAIN outputs
    /\ \A k \in 1..Len(sent) :
         \A j \in 1..(StageIndex(sent[k].stage) - 1) : StageOrder[j] \in DOMAIN outputs
    /\ (script = "crewai" /\ cpc = "task") =>
         /\ Len(ctaskOutputs) = ctask - 1
         /\ \A j \in 1..(ctask - 1) : ctaskOutputs[j].name = TaskOrder[j]

C1_Witness ==
    /\ script = "autogen"
    /\ pc = "await"
    /\ stage = Len(StageOrder)
    /\ DOMAIN outputs = Earlier("review")

(* C2 as stated: every request is rendered from the recorded results of ALL   *)
(* earlier phases and of no other.                                            *)
C2_AllEarlierSupplied ==
    \A k \in 1..Len(sent) :
        /\ Supplied(sent[k]) = Earlier(sent[k].stage)
        /\ \A i \in 1..Len(sent[k].args) :
             sent[k].args[i].text = outputs[sent[k].args[i].name]

(* C2 amended: every request is rendered only from recorded results of        *)
(* earlier phases, never from its own or a later phase's: research from none, *)
(* analysis from research, blueprint from research and analysis, technical    *)
(* from blueprint alone, review from blueprint and technical.                 *)
C2_OnlyEarlierSupplied ==
    \A k \in 1..Len(sent) :
        LET r == sent[k] IN
        /\ Supplied(r) \subseteq Earlier(r.stage)
        /\ \A i \in 1..Len(r.args) :
             /\ r.args[i].name \in DOMAIN outputs
             /\ r.args[i].text = outputs[r.args[i].name]
        /\ r.stage = "research"  => Supplied(r) = {}
        /\ r.stage = "analysis"  => Supplied(r) = {"research"}
        /\ r.stage = "blueprint" => Supplied(r) = {"research", "analysis"}
        /\ r.stage = "technical" => Supplied(r) = {"blueprint"}
        /\ r.stage = "review"    => Supplied(r) = {"blueprint", "technical"}

C2_Witness ==
    /\ Len(sent) = Len(StageOrder)
    /\ sent[4].stage = "technical"
    /\ Supplied(sent[4]) # Earlier("technical")
    /\ sent[4].args[1].text # << >>

(* C3 as stated: a completed run's mapping holds all five phase names, each   *)
(* with a non-empty output, after five model calls.                           *)
C3_AllNonEmpty ==
    Completed =>
        /\ DOMAIN outputs = StageNames
        /\ \A n \in StageNames : outputs[n] # << >>
        /\ Len(sent) = Len(StageOrder)

(* C3 amended: a completed run's mapping holds all five phase names, each     *)
(* with exactly the text its model call returned (empty when the reply was    *)
(* empty), and the run returned only after all five calls had returned.       *)
C3_AllStagesRecorded ==
    Completed =>
        /\ DOMAIN outputs = StageNames
        /\ DOMAIN replies = StageNames
        /\ \A n \in StageNames : outputs[n] = replies[n]
        /\ Len(sent) = Len(StageOrder)
        /\ \A i \in 1..Len(StageOrder) : sent[i].stage = StageOrder[i]

C3_Witness ==
    /\ Completed
    /\ pc = "save"
    /\ \E n \in StageNames : outputs[n] = << >>
    /\ \E n \in StageNames : outputs[n] # << >>

(* C4: when the model call of phase k fails with a fatal error the run is     *)
(* Failed at k, main re-raises, and the accumulated outputs hold exactly the  *)
(* results of the phases before k, as recorded.                               *)
C4_FatalLeavesNoLaterEntry ==
    (script = "autogen" /\ err.kind = "fatal") =>
        /\ Failed
        /\ StageOrder[stage] = err.stage
        /\ DOMAIN outputs = Earlier(err.stage)
        /\ \A n \in DOMAIN outputs : outputs[n] = replies[n]
        /\ pc = "done" => ret = "raised"

C4_Witness ==
    /\ Failed
    /\ pc = "done"
    /\ err = [kind |-> "fatal", stage |-> "blueprint"]
    /\ DOMAIN outputs = {"research", "analysis"}

C7_FatalNeverRetried ==
    (script = "autogen" /\ err.kind = "fatal") =>
        /\ Failed
        /\ attempts[err.stage] = 1
        /\ Len(sent) = StageIndex(err.stage)
        /\ \A i \in 1..Len(sent) : sent[i].stage = StageOrder[i]
        /\ \A n \in StageNames \ (Earlier(err.stage) \cup {err.stage}) : attempts[n] = 0

C7_Witness ==
    /\ Failed
    /\ pc = "done"
    /\ err = [kind |-> "fatal", stage |-> "analysis"]
    /\ Len(sent) = 2

(* C8: a failed run surfaces to the caller of main with the failing stage's   *)
(* name; the failure is not swallowed, in the interview main and in the crew  *)
(* main.                                                                      *)
C8_FailureSurfaced ==
    /\ (script = "autogen" /\ pc = "done" /\ err # NoErr) =>
         /\ ret = "raised"
         /\ << "stage", err.stage >> \in surfaced
    /\ (script = "crewai" /\ cpc = "done" /\ cerr # NoErr) =>
         cret = "raised"

(* C9: save_outputs never persists a default text: every section it writes    *)
(* is the text the mapping holds for that phase.                              *)
C9_NoPlaceholder ==
    \A i \in 1..Len(file) :
        /\ file[i].name \in DOMAIN outputs
        /\ file[i].text = outputs[file[i].name]

----------------------------------------------------------------------------
(* Claims about running the pipeline again (SpecRerun) *)

\* The mappings the caller holds, by position.
Held == { caller.held[i] : i \in 1..Len(caller.held) }

\* Requests the current run has sent, as positions in sent.
RunRequests == caller.first..Len(sent)

RECURSIVE SumAttempts(_)
SumAttempts(i) == IF i = 0 THEN 0 ELSE attempts[StageOrder[i]] + SumAttempts(i - 1)

(* C11 as stated: the mappings produced by two runs are independent, so the   *)
(* mapping a caller took from one run still holds what it held when it was    *)
(* returned, whatever a later run records, also when both runs are            *)
(* execute_workflow calls on one InterviewPlatformWorkflow.                   *)
C11_MappingsIndependent ==
    \A h \in Held : Content(h) = h.snapshot

(* C13 as stated: a workflow whose run is Completed or Failed never leaves    *)
(* that state: no stage is executed on it again and none of its recorded      *)
(* outputs changes.                                                           *)
C13_TerminalIsFinal ==
    \A h \in Held :
        h.wf = caller.wf =>
            /\ pc \notin {"execute", "render", "call", "await", "record"}
            /\ outputs = h.snapshot

(* C14: a run made after a failed one starts at the first stage and calls the *)
(* model for every stage it reaches, in declared order, and every text its    *)
(* prompts are rendered from is an output of the new run, never one the       *)
(* failed run recorded.                                                       *)
C14_RerunStartsOver ==
    (caller.run = 2 /\ caller.held[1].state = "Failed") =>
        /\ \A k \in RunRequests :
            /\ sent[k].stage = StageOrder[k - caller.first + 1]
            /\ \A a \in 1..Len(sent[k].args) :
                /\ sent[k].args[a].text = caller.seeds[2]
                /\ sent[k].args[a].text = replies[sent[k].args[a].name]
        /\ pc \in {"render", "call"} => Len(sent) - caller.first + 1 = stage - 1
        /\ pc \in {"await", "record"} => Len(sent) - caller.first + 1 = stage
        /\ (Len(caller.held) = 2 /\ caller.held[2].state = "Completed") =>
              Len(sent) - caller.first + 1 = Len(StageOrder)

C14_Witness ==
    /\ caller.run = 2
    /\ caller.wf = 1
    /\ Len(caller.held) = 2
    /\ caller.held[1].state = "Failed"
    /\ caller.held[1].stage = "blueprint"
    /\ caller.held[1].snapshot = ("research" :> << "a" >>) @@ ("analysis" :> << "a" >>)
    /\ caller.held[2].state = "Completed"
    /\ caller.seeds = << << "a" >>, << "b" >> >>
    /\ sent[caller.first].stage = "research"

(* C19: nothing is cached. Every completed run sent exactly one request per   *)
(* stage, in declared order, each request was one invocation of the remote,   *)
(* and a second run sends five more even when its prompts equal the first's.  *)
C19_NoCaching ==
    /\ \A h \in Held :
        h.state = "Completed" =>
            /\ h.last - h.first + 1 = Len(StageOrder)
            /\ \A i \in 1..Len(StageOrder) : sent[h.first + i - 1].stage = StageOrder[i]
    /\ Len(sent) = SumAttempts(Len(StageOrder))
    /\ pc = "record" => Len(sent) >= caller.first /\ sent[Len(sent)].stage = StageName

C19_Witness ==
    /\ Len(caller.held) = 2
    /\ caller.held[1].state = "Completed"
    /\ caller.held[2].state = "Completed"
    /\ caller.seeds[1] = caller.seeds[2]
    /\ Len(sent) = 2 * Len(StageOrder)
    /\ \A i \in 1..Len(StageOrder) : sent[Len(StageOrder) + i].messages = sent[i].messages

----------------------------------------------------------------------------
(* Claims about the prompts (Spec) *)

\* sub occurs in seq as a contiguous run of tokens.
Contains(seq, sub) ==
    \E i \in 1..(Len(seq) - Len(sub) + 1) : SubSeq(seq, i, i + Len(sub) - 1) = sub

\* The content of the user message of a request.
UserContent(request) ==
    LET i == CHOOSE j \in 1..Len(request.messages) : request.messages[j].role = "user"
    IN  request.messages[i].content

\* The phases whose outputs a phase is given.
DependsOn(name) == { PhaseParams(name)[i] : i \in 1..Len(PhaseParams(name)) }

(* C18: the prompt of every stage after the first contains, verbatim, the     *)
(* recorded output of each stage it is given, and the mapping of a completed  *)
(* run maps each stage to exactly the text the model returned for it.         *)
C18_ContextThreaded ==
    /\ \A k \in 1..Len(sent) :
        /\ sent[k].stage # "research" => DependsOn(sent[k].stage) # {}
        /\ \A d \in DependsOn(sent[k].stage) :
            /\ d \in DOMAIN outputs
            /\ Contains(UserContent(sent[k]), outputs[d])
    /\ \A n \in DOMAIN outputs : outputs[n] = replies[n]
    /\ Completed => DOMAIN outputs = StageNames

C18_Witness ==
    /\ Completed
    /\ Len(sent) = Len(StageOrder)
    /\ outputs["blueprint"] = << "b" >>
    /\ outputs["technical"] = << "a" >>
    /\ Contains(UserContent(sent[5]), << "TECHNICAL ASSESSMENT:", "a" >>)

(* C20: every prompt sent to the model is a non-empty sequence of messages,   *)
(* and a system message, when there is one, is the first of them.             *)
C20_SystemMessageFirst ==
    /\ \A k \in 1..Len(sent) :
        /\ Len(sent[k].messages) >= 1
        /\ \A i \in 1..Len(sent[k].messages) :
            sent[k].messages[i].role = "system" => i = 1
    /\ pc \in {"call", "await"} =>
        /\ Len(prompt) >= 1
        /\ \A i \in 1..Len(prompt) : prompt[i].role = "system" => i = 1

C20_Witness ==
    /\ Len(sent) = Len(StageOrder)
    /\ \A k \in 1..Len(sent) :
        /\ sent[k].messages[1].role = "system"
        /\ sent[k].messages[1].content = system_message(AgentKey(sent[k].stage))
        /\ Len(sent[k].messages) = 2

----------------------------------------------------------------------------
(* Claim about interruption (SpecCancel) *)

(* C17: a phase interrupted while its model call is in flight records no      *)
(* result: afterwards the mapping holds exactly the phases that completed     *)
(* before it, each with the text the model returned for it, and nothing was   *)
(* persisted.                                                                 *)
C17_InterruptedStageRecordsNothing ==
    err.kind = "interrupt" =>
        /\ DOMAIN outputs = Earlier(err.stage)
        /\ \A n \in DOMAIN outputs : outputs[n] = replies[n]
        /\ Len(sent) = StageIndex(err.stage)
        /\ pc = "done"
        /\ file = << >>
        /\ ~summary

C17_Witness ==
    /\ err = [kind |-> "interrupt", stage |-> "blueprint"]
    /\ DOMAIN outputs = {"research", "analysis"}
    /\ outputs["research"] = << "a" >>
    /\ outputs["analysis"] = << "b" >>
    /\ sent[Len(sent)].stage = "blueprint"

----------------------------------------------------------------------------
(* Claims about missing references and prompt building (SpecDef) *)

(* C15 as stated: a pipeline with a phase whose agent was never registered is *)
(* rejected when the workflow is constructed, before any model call, and no   *)
(* missing-reference error occurs while phases execute.                       *)
C15_RejectedAtConstruction ==
    MissingReference =>
        /\ Len(sent) = 0
        /\ err.kind # "KeyError"

(* C16: a failure while a phase builds its prompt fails the run at that phase *)
(* without retry: the phase's model call is not made, no later phase runs and *)
(* nothing is recorded for the phase.                                         *)
C16_RenderFailureFailsRun ==
    /\ (stage >= 1 /\ AgentKey(StageName) \notin DOMAIN agents /\ pc # "render") =>
          err = [kind |-> "KeyError", stage |-> StageName]
    /\ err.kind = "KeyError" =>
          /\ pc \in {"except", "done"}
          /\ stage = StageIndex(err.stage)
          /\ attempts[err.stage] = 0
          /\ \A k \in 1..Len(sent) : sent[k].stage \in Earlier(err.stage)
          /\ Len(sent) = stage - 1
          /\ DOMAIN outputs = Earlier(err.stage)
          /\ file = << >>

C16_Witness ==
    /\ err = [kind |-> "KeyError", stage |-> "technical"]
    /\ pc = "done"
    /\ ret = "raised"
    /\ DOMAIN agents = AgentKeys \ {"technical"}
    /\ DOMAIN outputs = {"research", "analysis", "blueprint"}
    /\ Len(sent) = 3

----------------------------------------------------------------------------
(* Claim about concurrent runs (SpecConc) *)

(* C12 as stated: two runs executing concurrently do not interfere: they      *)
(* share no output file and no process environment, and once both finished,   *)
(* the output each run persisted is the one it produces when run alone.       *)
C12_RunsDoNotInterfere ==
    (\A r \in Runs : conc.pc[r] = "done") =>
        /\ conc.path[1] # conc.path[2]
        /\ \A r \in Runs : conc.files[conc.path[r]] = AloneOutput(r)
        /\ Cardinality(conc.environ) <= 1

----------------------------------------------------------------------------
(* Claims about main's run of the interview workflow (Spec) *)

RunState ==
    IF Running THEN [state |-> "Running", index |-> stage]
    ELSE IF Completed THEN [state |-> "Completed", index |-> 0]
    ELSE IF Failed THEN [state |-> "Failed", index |-> StageIndex(err.stage)]
    ELSE [state |-> "Idle", index |-> 0]

(* C22: the run follows only the transitions Idle -> Running(first),          *)
(* Running(i) -> Running(i+1) when phase i has recorded its output and is not *)
(* the last, Running(last) -> Completed, and Running(i) -> Failed(i); and,    *)
(* every model call eventually returning or raising, every started run        *)
(* eventually is Completed or Failed.                                         *)
C22_TransitionsAndTermination ==
    /\ [][ \/ RunState' = RunState
           \/ /\ RunState.state = "Idle"
              /\ RunState' = [state |-> "Running", index |-> 1]
           \/ /\ RunState.state = "Running"
              /\ RunState.index < Len(StageOrder)
              /\ RunState' = [state |-> "Running", index |-> RunState.index + 1]
              /\ StageOrder[RunState.index] \in DOMAIN outputs'
           \/ /\ RunState = [state |-> "Running", index |-> Len(StageOrder)]
              /\ RunState'.state = "Completed"
              /\ DOMAIN outputs' = StageNames
           \/ /\ RunState.state = "Running"
              /\ RunState' = [state |-> "Failed", index |-> RunState.index]
         ]_vars
    /\ Running ~> (Completed \/ Failed)

C22_Witness ==
    /\ RunState.state = "Completed"
    /\ pc = "save"
    /\ Len(sent) = Len(StageOrder)
    /\ remote["research"] = << "ok" >>

\* The keys save_outputs reads from the mapping it is given.
SaveKeys == { save_outputs(<< >>)[i].name : i \in 1..Len(save_outputs(<< >>)) }

(* C23: once execute_workflow has returned, the keys of the outputs mapping   *)
(* are exactly the keys save_outputs reads, so the file main writes after a   *)
(* completed run holds the model's text for each of the five phases and no    *)
(* "No ... output" default.                                                   *)
C23_SavedKeysMatch ==
    /\ Completed => DOMAIN outputs = SaveKeys
    /\ file # << >> =>
        /\ Completed
        /\ Len(file) = Len(StageOrder)
        /\ \A i \in 1..Len(file) :
            /\ file[i].name \in DOMAIN replies
            /\ file[i].text = replies[file[i].name]
            /\ file[i].text # Placeholder(file[i].name)

C23_Witness ==
    /\ pc = "summary"
    /\ Len(file) = Len(StageOrder)
    /\ file[1] = [name |-> "research", text |-> << "b" >>]
    /\ file[5] = [name |-> "review", text |-> << "a" >>]
    /\ DOMAIN outputs = SaveKeys

(* C24: when configuration validation fails, main returns False having        *)
(* registered no agent, made no model call and written neither the output    *)
(* nor the summary file; when it succeeds, all five agents are registered     *)
(* before the first model call.                                               *)
C24_ValidationGatesEverything ==
    /\ ret = "False" =>
        /\ pc = "done"
        /\ agents = << >>
        /\ outputs = << >>
        /\ Len(sent) = 0
        /\ \A n \in StageNames : attempts[n] = 0
        /\ file = << >>
        /\ ~summary
    /\ ((script = "autogen" /\ pc \in {"call", "await", "record"}) \/ Len(sent) >= 1) =>
        /\ DOMAIN agents = AgentKeys
        /\ ret # "False"

C24_Witness ==
    /\ script = "autogen"
    /\ ret = "False"
    /\ pc = "done"
    /\ agents = << >>
    /\ sent = << >>

----------------------------------------------------------------------------
(* Claims about crewai_demo.py (Spec, SpecHotel) *)

(* C25: in the travel crew's main the output file is written only after       *)
(* crew.kickoff returned without raising, and it then holds kickoff's result; *)
(* when kickoff raises, no output file is created or modified.                *)
C25_FileOnlyAfterKickoff ==
    /\ [][ cfile' # cfile =>
            /\ cpc = "write"
            /\ cerr = NoErr
            /\ Len(ctaskOutputs) = Len(TaskOrder)
            /\ cfile'[1].text = cresult
            /\ cresult = ctaskOutputs[Len(TaskOrder)].text
         ]_vars
    /\ [](cerr # NoErr => cfile = << >>)

C25_Witness ==
    /\ script = "crewai"
    /\ cpc = "done"
    /\ cret = "returned"
    /\ cerr = NoErr
    /\ Len(cfile) = 1
    /\ cfile[1].text = << "a" >>
    /\ ctaskOutputs[1].text = << "b" >>

\* Two destinations are equal when the case of letters is ignored.
SameIgnoringCase(u, w) ==
    /\ Len(u) = Len(w)
    /\ \A i \in 1..Len(u) :
        \/ u[i] = w[i]
        \/ << u[i], w[i] >> \in CasePairs
        \/ << w[i], u[i] >> \in CasePairs

(* C26: for every destination, create_hotel_agent and create_hotel_task       *)
(* derive the same hotel location: Reykjavik, Paris and Tokyo for Iceland,    *)
(* France and Japan in any mix of upper and lower case, and the destination   *)
(* itself, unchanged, for any other value.                                    *)
C26_SameHotelLocation ==
    conc.pc = "done" =>
        /\ conc.agent_location = conc.task_location
        /\ conc.task_location =
             IF SameIgnoringCase(conc.destination, iceland) THEN Reykjavik
             ELSE IF SameIgnoringCase(conc.destination, france) THEN Paris
             ELSE IF SameIgnoringCase(conc.destination, japan) THEN Tokyo
             ELSE conc.destination

C26_Witness ==
    /\ conc.pc = "done"
    /\ conc.destination = << "I", "c", "e", "l", "a", "n", "d" >>
    /\ conc.agent_location = Reykjavik
    /\ conc.task_location = Reykjavik

====
